---- MODULE Spec2Model ----
(***************************************************************************)
(* A model of the golang-aws-api service: the upload/query HTTP API, its   *)
(* mock authentication provider and gate, the relational tables it keeps   *)
(* (users, files, processing_results), the object store, and the queue     *)
(* worker (HandleSQSEvent).                                                *)
(*                                                                         *)
(* Strings are sequences of one-character strings, so that strings.Split,  *)
(* strings.Fields, len and fmt.Sprintf are computed as the code computes   *)
(* them.  Every HTTP handler and the worker invocation is one action; a    *)
(* failure of the database or of the object store is an input of the       *)
(* action (the dependent service decides it, not the program).             *)
(***************************************************************************)
EXTENDS Integers, Sequences, FiniteSets, TLC

VARIABLES
    users,      \* table users: set of rows [username, password, email, confirmed]
    issued,     \* history: the access tokens successful sign-ins have returned
    files,      \* table files: function id -> [name, s3_key, created_at]
    results,    \* table processing_results: sequence of rows in heap order
    objects,    \* the bucket: function key -> content
    clock,      \* time.Now(), in ticks
    resp,       \* the last request or invocation and the answer it got
    uploaded,   \* history: id -> content of the uploads answered 201
    delivered,  \* history: key -> times the worker handled a record for it
    boot,       \* InitDB: where it is, its loop index, its attempts and sleeps
    mu,         \* mockProvider.mu: the goroutine holding Lock, those holding RLock
    running,    \* goroutine -> the call it is in, where it is in it, its locals
    signedOut,  \* history: the tokens MockSignOut was called with
    served      \* history: the ids a result lookup has answered "completed" for

vars == <<users, issued, files, results, objects, clock, resp, uploaded, delivered, boot,
          mu, running, signedOut, served>>

----------------------------------------------------------------------------
(* Bounds of the model *)

\* the records the worker handles without a failure of a dependent service
MaxDeliveries == 2
\* the ticks of the clock
MaxClock == 1

----------------------------------------------------------------------------
(* Strings *)

EmptyStr == << >>
Slash == "/"
Space == " "

\* A string element stands for one character.  "U+00E9" is the letter e with
\* an acute accent, the one character of the model whose UTF-8 encoding takes
\* two bytes.
EAcute == "U+00E9"
WideChars == {EAcute}

\* unicode.IsSpace, on the characters of the model
IsSpace(c) == c \in {" ", "\t", "\n"}

\* Go's len(string): the number of bytes of the UTF-8 encoding
RECURSIVE ByteLen(_)
ByteLen(s) ==
    IF s = EmptyStr THEN 0
    ELSE (IF Head(s) \in WideChars THEN 2 ELSE 1) + ByteLen(Tail(s))

\* the number of characters (runes) of a string
RuneCount(s) == Len(s)

\* strings.Split(s, sep) for a one-character sep: the pieces between the
\* separators, one more than there are separators (Split("", sep) = [""]).
RECURSIVE SplitFrom(_, _, _)
SplitFrom(s, sep, cur) ==
    IF s = EmptyStr THEN <<cur>>
    ELSE IF Head(s) = sep THEN <<cur>> \o SplitFrom(Tail(s), sep, EmptyStr)
    ELSE SplitFrom(Tail(s), sep, Append(cur, Head(s)))

Split(s, sep) == SplitFrom(s, sep, EmptyStr)

\* strings.Fields(s): the maximal runs of non-space characters
RECURSIVE FieldsFrom(_, _)
FieldsFrom(s, cur) ==
    IF s = EmptyStr THEN (IF cur = EmptyStr THEN << >> ELSE <<cur>>)
    ELSE IF IsSpace(Head(s))
         THEN (IF cur = EmptyStr THEN << >> ELSE <<cur>>) \o FieldsFrom(Tail(s), EmptyStr)
         ELSE FieldsFrom(Tail(s), Append(cur, Head(s)))

Fields(s) == FieldsFrom(s, EmptyStr)

\* the key without the id
S3KeyOfName(id, name) == <<"f", "i", "l", "e", "s", Slash>> \o name

\* fmt.Sprintf("files/%s/%s", id, name)
S3Key(id, name) == <<"f", "i", "l", "e", "s", Slash>> \o id \o <<Slash>> \o name

\* fmt.Sprintf("Processed file with %d words and %d characters", words, chars)
ProcessedResult(words, chars) ==
    <<"Processed file with ", words, " words and ", chars, " characters">>

----------------------------------------------------------------------------
(* The inputs of the model *)

\* ids a client may send; EmptyStr is "no id given"
IdA == <<"a">>
IdAB == <<"a", Slash, "b">>
ClientIds == {IdA, IdAB}

\* the values uuid.New().String() may return (hex digits and dashes)
Uuids == {<<"9", "-", "f">>}

NameC == <<"c">>
NameBC == <<"b", Slash, "c">>
Names == {NameC, NameBC}

TextHiYo == <<"h", "i", Space, "y", "o">>
TextAccent == <<EAcute>>
Contents == {TextHiYo, TextAccent}

\* a request body json.Decode rejects
BadBody == [malformed |-> TRUE]

UploadBodies ==
    {BadBody} \cup [id : ClientIds \cup {EmptyStr}, name : Names, content : Contents]

bucketName == "my-test-bucket"

\* which dependent call of a request fails, if any: the first database call,
\* the second database call, the object-store call, the read of its body
NoFault == "none"
FaultDB == "db"
FaultDB2 == "db2"
FaultS3 == "s3"
FaultRead == "read"

----------------------------------------------------------------------------
(* The tables and the bucket *)

\* the table without its PRIMARY KEY
FilesInsertFailsUnkeyed(tbl, id, fault) == fault = FaultDB

\* INSERT INTO files (id, name, s3_key, created_at): id is the PRIMARY KEY
FilesInsertFails(tbl, id, fault) == fault = FaultDB \/ id \in DOMAIN tbl

FilesInsert(tbl, id, name, key, now) ==
    [i \in DOMAIN tbl \cup {id} |->
        IF i = id THEN [name |-> name, s3_key |-> key, created_at |-> now]
        ELSE tbl[i]]

\* PutObject sent the key where the content belongs
PutObjectKeyAsBody(bkt, key, body) ==
    [k \in DOMAIN bkt \cup {key} |-> IF k = key THEN key ELSE bkt[k]]

\* s3Client.PutObject(bucket, key, body)
PutObject(bkt, key, body) ==
    [k \in DOMAIN bkt \cup {key} |-> IF k = key THEN body ELSE bkt[k]]

\* s3Client.GetObject(bucket, key) fails when the service fails, when the
\* bucket is not the one that holds the objects, or when the key is absent
GetObjectFails(bkt, bucket, key, fault) ==
    fault = FaultS3 \/ bucket # bucketName \/ key \notin DOMAIN bkt

\* the processing_results rows WHERE file_id = fileID
ResultRows(tbl, fileID) == {i \in DOMAIN tbl : tbl[i].file_id = fileID}

\* the table without its REFERENCES files(id)
ResultsInsertFailsUnreferenced(ftbl, fileID, fault) == fault = FaultDB

\* INSERT INTO processing_results: file_id REFERENCES files(id)
ResultsInsertFails(ftbl, fileID, fault) == fault = FaultDB \/ fileID \notin DOMAIN ftbl

\* the new row's id is uuid.New(): a value no other row has
ResultsInsert(tbl, fileID, status, result, now) ==
    Append(tbl, [id |-> <<"r", Len(tbl) + 1>>, file_id |-> fileID, status |-> status,
                 result |-> result, created_at |-> now])

----------------------------------------------------------------------------
(* The upload/query API: the handlers of main.go *)

ErrorBody(code, msg) == [code |-> code, error |-> msg]

\* the handler without the return after its 400: it goes on with the zero
\* FileData and writes its row and its object
uploadFileHandlerNoReturn(body, fresh, fault) ==
    IF "malformed" \in DOMAIN body
    THEN [out |-> ErrorBody(400, "Invalid request body"),
          id |-> fresh,
          files |-> FilesInsert(files, fresh, EmptyStr, S3Key(fresh, EmptyStr), clock),
          objects |-> PutObject(objects, S3Key(fresh, EmptyStr), EmptyStr)]
    ELSE
      LET id == IF body.id = EmptyStr THEN fresh ELSE body.id
          s3Key == S3Key(id, body.name)
          inserted == FilesInsert(files, id, body.name, s3Key, clock)
      IN  IF FilesInsertFails(files, id, fault)
          THEN [out |-> ErrorBody(500, "Error saving file metadata"),
                id |-> id, files |-> files, objects |-> objects]
          ELSE IF fault = FaultS3
          THEN [out |-> ErrorBody(500, "Error uploading file"),
                id |-> id, files |-> inserted, objects |-> objects]
          ELSE [out |-> [code |-> 201, id |-> id, status |-> "uploaded",
                         message |-> "File uploaded successfully and processing started"],
                id |-> id, files |-> inserted,
                objects |-> PutObject(objects, s3Key, body.content)]

\* uploadFileHandler.  body is the request body, fresh the value uuid.New()
\* returns if it is called, fault the dependent call that fails.  The answer,
\* and the tables and bucket the handler leaves.
uploadFileHandler(body, fresh, fault) ==
    IF "malformed" \in DOMAIN body
    THEN [out |-> ErrorBody(400, "Invalid request body"),
          id |-> EmptyStr, files |-> files, objects |-> objects]
    ELSE
      LET id == IF body.id = EmptyStr THEN fresh ELSE body.id
          s3Key == S3Key(id, body.name)
          inserted == FilesInsert(files, id, body.name, s3Key, clock)
      IN  IF FilesInsertFails(files, id, fault)
          THEN [out |-> ErrorBody(500, "Error saving file metadata"),
                id |-> id, files |-> files, objects |-> objects]
          ELSE IF fault = FaultS3
          THEN [out |-> ErrorBody(500, "Error uploading file"),
                id |-> id, files |-> inserted, objects |-> objects]
          ELSE [out |-> [code |-> 201, id |-> id, status |-> "uploaded",
                         message |-> "File uploaded successfully and processing started"],
                id |-> id, files |-> inserted,
                objects |-> PutObject(objects, s3Key, body.content)]

\* a missing row answered like a failed query
FileNotFoundAsInternal == ErrorBody(500, "Error retrieving file")

\* a failed GetObject answered like a missing row
FileContentErrorAsNotFound == ErrorBody(404, "File not found")

\* getFileHandler's answer to sql.ErrNoRows
FileNotFound == ErrorBody(404, "File not found")

\* getFileHandler's answer to a failed GetObject
FileContentError == ErrorBody(500, "Error retrieving file content")

\* getFileHandler, for the route variable id: the answer and the downstream
\* calls it made
getFileHandler(fileID, fault) ==
    IF fault = FaultDB
    THEN [out |-> ErrorBody(500, "Error retrieving file"), calls |-> <<"db">>]
    ELSE IF fileID \notin DOMAIN files
    THEN [out |-> FileNotFound, calls |-> <<"db">>]
    ELSE IF GetObjectFails(objects, bucketName, files[fileID].s3_key, fault)
    THEN [out |-> FileContentError, calls |-> <<"db", "s3">>]
    ELSE IF fault = FaultRead
    THEN [out |-> ErrorBody(500, "Error reading file content"), calls |-> <<"db", "s3">>]
    ELSE [out |-> [code |-> 200, id |-> fileID, name |-> files[fileID].name,
                   content |-> objects[files[fileID].s3_key],
                   created_at |-> files[fileID].created_at],
          calls |-> <<"db", "s3">>]

\* the query without its WHERE clause
ScannedRowsOfAnyFile(fileID) == DOMAIN results

\* The rows the query of getResultHandler may hand to Scan: the statement has
\* no ORDER BY, so QueryRow scans whichever matching row the database returns
\* first.
ScannedRows(fileID) == ResultRows(results, fileID)

\* getResultHandler, for the route variable id; row is the row scanned when
\* there is one
\* any error of the first query is taken for sql.ErrNoRows
getResultHandlerAnyErrorNoRows(fileID, row, fault) ==
    IF fault = FaultDB \/ ScannedRows(fileID) = {}
    THEN IF fault = FaultDB2 \/ fileID \notin DOMAIN files
         THEN [out |-> ErrorBody(404, "File not found"), calls |-> <<"db", "db">>]
         ELSE [out |-> [code |-> 200, status |-> "processing",
                        message |-> "Processing not complete or not started"],
               calls |-> <<"db", "db">>]
    ELSE [out |-> [code |-> 200, id |-> results[row].id, status |-> results[row].status,
                   result |-> results[row].result, created_at |-> results[row].created_at],
          calls |-> <<"db">>]

getResultHandler(fileID, row, fault) ==
    IF fault = FaultDB
    THEN [out |-> ErrorBody(500, "Error retrieving processing result"), calls |-> <<"db">>]
    ELSE IF ScannedRows(fileID) = {}
    THEN IF fault = FaultDB2 \/ fileID \notin DOMAIN files
         THEN [out |-> ErrorBody(404, "File not found"), calls |-> <<"db", "db">>]
         ELSE [out |-> [code |-> 200, status |-> "processing",
                        message |-> "Processing not complete or not started"],
               calls |-> <<"db", "db">>]
    ELSE [out |-> [code |-> 200, id |-> results[row].id, status |-> results[row].status,
                   result |-> results[row].result, created_at |-> results[row].created_at],
          calls |-> <<"db">>]

----------------------------------------------------------------------------
(* The mock authentication provider and the gate *)

Bearer == <<"B", "e", "a", "r", "e", "r">>

\* the values GenerateToken may return (base64 of 32 random bytes)
Tokens == {<<"T", "k", "=">>}

\* a token no sign-in returns
ForgedToken == <<"x">>

HdrNone == EmptyStr
HdrBearer(t) == Bearer \o <<Space>> \o t
HdrBasic == <<"B", "a", "s", "i", "c", Space, "x">>
HdrOnePart == Bearer
HdrThreeParts == Bearer \o <<Space, "x", Space, "y">>
HdrLower == <<"b", "e", "a", "r", "e", "r", Space, "x">>

Headers ==
    {HdrNone, HdrBasic, HdrOnePart, HdrThreeParts, HdrLower, HdrBearer(ForgedToken)}
        \cup {HdrBearer(t) : t \in Tokens}

\* a provider that forgets the tokens it was asked to sign out
MockGetUserUnlessSignedOut(accessToken) ==
    [err |-> accessToken \in signedOut,
     user |-> [Username |-> "mockuser", AccessToken |-> accessToken, Confirmed |-> TRUE]]

\* MockGetUser: a mock user for whatever token, and no error
MockGetUser(accessToken) ==
    [err |-> FALSE,
     user |-> [Username |-> "mockuser", AccessToken |-> accessToken, Confirmed |-> TRUE]]

\* MockSignOut: nothing is invalidated; it returns nil
MockSignOut(accessToken) == [err |-> "nil"]

\* the gate looking only at how the header begins
MockAuthMiddlewarePrefixOnly(authHeader) ==
    IF authHeader = EmptyStr
    THEN ErrorBody(401, "Authorization header is required")
    ELSE LET parts == Split(authHeader, Space)
         IN  IF Len(parts) < 2 \/ parts[1] # Bearer
             THEN ErrorBody(401, "Invalid authorization header format")
             ELSE [code |-> 0]

\* MockAuthMiddleware: the 401 it answers, or code 0 when it calls next
MockAuthMiddleware(authHeader) ==
    IF authHeader = EmptyStr
    THEN ErrorBody(401, "Authorization header is required")
    ELSE LET parts == Split(authHeader, Space)
         IN  IF Len(parts) # 2 \/ parts[1] # Bearer
             THEN ErrorBody(401, "Invalid authorization header format")
             ELSE IF MockGetUser(parts[2]).err
             THEN ErrorBody(401, "Invalid token")
             ELSE [code |-> 0]

----------------------------------------------------------------------------
(* The worker: HandleSQSEvent of lambda/main.go *)

\* A key with no "/" in it
KeyNoSlash == <<"x">>

WorkerKeys == {S3Key(i, n) : i \in ClientIds \cup Uuids, n \in Names} \cup {KeyNoSlash}

\* One record of an S3 event, with the dependent call that fails while the
\* worker handles it
Rec(bucket, key, fault) == [bucket |-> bucket, key |-> key, fault |-> fault]

\* A message whose body decodes to the records rs
Msg(rs) == [Records |-> rs]

WorkerFaults == {NoFault, FaultS3, FaultRead, FaultDB}

\* The batches the queue hands to the worker
Events ==
    {<<Msg(<<Rec(bucketName, k, f)>>)>> : k \in WorkerKeys, f \in WorkerFaults}
    \cup {<<BadBody>>, <<Msg(<< >>)>>}
    \cup {<<Msg(<<Rec("other-bucket", k, NoFault)>>)>> : k \in {S3Key(IdA, NameC)}}
    \cup {<<Msg(<<Rec(bucketName, k1, f), Rec(bucketName, k2, NoFault)>>)>> :
              k1 \in {KeyNoSlash, S3Key(IdA, NameC)}, k2 \in {S3Key(IdA, NameC)},
              f \in {NoFault, FaultS3}}
    \cup {<<BadBody, Msg(<<Rec(bucketName, k, NoFault)>>)>> : k \in {S3Key(IdAB, NameC)}}

LogLine(key, text) == [key |-> key, text |-> text]

\* the worker's calls to the object store and to the database, in order
FetchCall(bucket, key) == [call |-> "GetObject", bucket |-> bucket, key |-> key]
InsertCall(fileID) == [call |-> "INSERT", file_id |-> fileID]

\* a key with a segment only when it is empty
InvalidKeyFormatOnlyEmpty(parts) == Len(parts) < 1

\* len(parts) < 2
InvalidKeyFormat(parts) == Len(parts) < 2

\* a failed record ends the batch
RestAfterNothing(done, records) == << >>

\* continue: after a record, failed or not, the loop goes on with the next
RestAfter(done, records) == Tail(records)

\* The body of the inner loop, for one record: the processing_results table,
\* the log and the calls it leaves.  acc is [results, log, calls].
HandleRecord(acc, record) ==
    LET objectKey == record.key
        parts == Split(objectKey, Slash)
    IN  IF InvalidKeyFormat(parts)
        THEN [acc EXCEPT !.log = Append(@, LogLine(objectKey, "Invalid object key format"))]
        ELSE
          LET fileID == parts[2]
              fetched == Append(acc.calls, FetchCall(record.bucket, objectKey))
          IN  IF GetObjectFails(objects, record.bucket, objectKey, record.fault)
              THEN [acc EXCEPT !.log =
                        Append(@, LogLine(objectKey, "Error getting object from S3")),
                               !.calls = fetched]
              ELSE IF record.fault = FaultRead
              THEN [acc EXCEPT !.log =
                        Append(@, LogLine(objectKey, "Error reading object content")),
                               !.calls = fetched]
              ELSE
                LET fileContent == objects[objectKey]
                    words == Len(Fields(fileContent))
                    chars == ByteLen(fileContent)
                    processedResult == ProcessedResult(words, chars)
                IN  IF ResultsInsertFails(files, fileID, record.fault)
                    THEN [acc EXCEPT !.log =
                              Append(@, LogLine(objectKey, "Error saving processing result")),
                                     !.calls = Append(fetched, InsertCall(fileID))]
                    ELSE [results |-> ResultsInsert(acc.results, fileID, "completed",
                                                    processedResult, clock),
                          log |-> Append(acc.log,
                                         LogLine(objectKey, "Successfully processed file")),
                          calls |-> Append(fetched, InsertCall(fileID))]

RECURSIVE HandleRecords(_, _)
HandleRecords(acc, records) ==
    IF records = << >> THEN acc
    ELSE LET done == HandleRecord(acc, Head(records))
         IN  HandleRecords(done, RestAfter(done, records))

\* The outer loop: a message whose body does not decode is logged and skipped
RECURSIVE HandleMessages(_, _)
HandleMessages(acc, messages) ==
    IF messages = << >> THEN acc
    ELSE IF "malformed" \in DOMAIN Head(messages)
    THEN HandleMessages([acc EXCEPT !.log =
                             Append(@, LogLine(EmptyStr, "Error parsing S3 event"))],
                        Tail(messages))
    ELSE HandleMessages(HandleRecords(acc, Head(messages).Records), Tail(messages))

\* HandleSQSEvent: the table, the log and the calls it leaves; it returns nil
HandleSQSEvent(sqsEvent) ==
    LET done == HandleMessages([results |-> results, log |-> << >>, calls |-> << >>],
                               sqsEvent)
    IN  [err |-> "nil", results |-> done.results, log |-> done.log, calls |-> done.calls]

\* The records of a batch that name key, an object the worker's bucket holds,
\* and that the worker handles with no dependent call failing
RECURSIVE CleanRecords(_, _)
CleanRecords(records, key) ==
    IF records = << >> THEN 0
    ELSE (IF Head(records) = Rec(bucketName, key, NoFault) /\ key \in DOMAIN objects
          THEN 1 ELSE 0)
         + CleanRecords(Tail(records), key)

RECURSIVE CleanDeliveries(_, _)
CleanDeliveries(messages, key) ==
    IF messages = << >> THEN 0
    ELSE (IF "malformed" \in DOMAIN Head(messages) THEN 0
          ELSE CleanRecords(Head(messages).Records, key))
         + CleanDeliveries(Tail(messages), key)

RECURSIVE SumOver(_, _)
SumOver(f, S) ==
    IF S = {} THEN 0
    ELSE LET x == CHOOSE y \in S : TRUE IN f[x] + SumOver(f, S \ {x})

----------------------------------------------------------------------------
(* The user store and the mock provider's operations *)

Usernames == {"alice", "bob"}
Passwords == {"pw1", "pw2"}
Emails == {"a@x.io", "b@x.io"}
Codes == {"123456", ""}

FaultDB3 == "db3"

UserRows(tbl, username) == {u \in tbl : u.username = username}
EmailRows(tbl, email) == {u \in tbl : u.email = email}

\* INSERT INTO users: username and email are UNIQUE
UsersInsertFails(tbl, username, email, fault) ==
    fault = FaultDB3 \/ UserRows(tbl, username) # {} \/ EmailRows(tbl, email) # {}

\* SaveUser: confirmed takes its DEFAULT FALSE
SaveUser(tbl, username, password, email) ==
    tbl \cup {[username |-> username, password |-> password, email |-> email,
               confirmed |-> FALSE]}

\* the UPDATE without its WHERE clause
ConfirmEveryUser(tbl, username) == {[u EXCEPT !.confirmed = TRUE] : u \in tbl}

\* ConfirmUser: UPDATE users SET confirmed = true WHERE username = $1
ConfirmUser(tbl, username) ==
    {IF u.username = username THEN [u EXCEPT !.confirmed = TRUE] ELSE u : u \in tbl}

DBError == "database error"

\* MockSignUp without its look-up by email
MockSignUpNoEmailCheck(username, password, email, fault) ==
    IF fault = FaultDB THEN [err |-> DBError, users |-> users]
    ELSE IF UserRows(users, username) # {}
    THEN [err |-> "user already exists", users |-> users]
    ELSE IF UsersInsertFails(users, username, email, fault)
    THEN [err |-> DBError, users |-> users]
    ELSE [err |-> "", users |-> SaveUser(users, username, password, email)]

\* MockSignUp, under the provider's lock: the error ("" for nil) and the table
MockSignUp(username, password, email, fault) ==
    IF fault = FaultDB THEN [err |-> DBError, users |-> users]
    ELSE IF UserRows(users, username) # {}
    THEN [err |-> "user already exists", users |-> users]
    ELSE IF fault = FaultDB2 THEN [err |-> DBError, users |-> users]
    ELSE IF EmailRows(users, email) # {}
    THEN [err |-> "email already exists", users |-> users]
    ELSE IF UsersInsertFails(users, username, email, fault)
    THEN [err |-> DBError, users |-> users]
    ELSE [err |-> "", users |-> SaveUser(users, username, password, email)]

\* MockConfirmSignUp: the code is not looked at
MockConfirmSignUp(username, code, fault) ==
    IF fault = FaultDB THEN [err |-> DBError, users |-> users]
    ELSE IF UserRows(users, username) = {}
    THEN [err |-> "user not found", users |-> users]
    ELSE IF fault = FaultDB2 THEN [err |-> DBError, users |-> users]
    ELSE [err |-> "", users |-> ConfirmUser(users, username)]

\* MockSignIn without its look at the confirmed flag
MockSignInUnconfirmed(username, password, token, fault) ==
    IF fault = FaultDB THEN [err |-> DBError, AccessToken |-> EmptyStr]
    ELSE IF UserRows(users, username) = {}
    THEN [err |-> "user not found", AccessToken |-> EmptyStr]
    ELSE LET user == CHOOSE u \in UserRows(users, username) : TRUE
         IN  IF user.password # password
             THEN [err |-> "invalid password", AccessToken |-> EmptyStr]
             ELSE [err |-> "", AccessToken |-> token]

\* MockSignIn; token is the value GenerateToken returns if it is called
MockSignIn(username, password, token, fault) ==
    IF fault = FaultDB THEN [err |-> DBError, AccessToken |-> EmptyStr]
    ELSE IF UserRows(users, username) = {}
    THEN [err |-> "user not found", AccessToken |-> EmptyStr]
    ELSE LET user == CHOOSE u \in UserRows(users, username) : TRUE
         IN  IF user.password # password
             THEN [err |-> "invalid password", AccessToken |-> EmptyStr]
             ELSE IF ~user.confirmed
             THEN [err |-> "user not confirmed", AccessToken |-> EmptyStr]
             ELSE [err |-> "", AccessToken |-> token]

\* mockSignUpHandler
mockSignUpHandler(body, fault) ==
    IF "malformed" \in DOMAIN body
    THEN [out |-> ErrorBody(400, <<"Invalid request body">>), users |-> users]
    ELSE LET r == MockSignUp(body.username, body.password, body.email, fault)
         IN  IF r.err # ""
             THEN [out |-> ErrorBody(500, <<"Failed to sign up: ", r.err>>), users |-> users]
             ELSE [out |-> [code |-> 200, user_id |-> body.username,
                            message |-> "User registered successfully. Please check your email for confirmation code."],
                   users |-> r.users]

\* mockConfirmSignUpHandler
mockConfirmSignUpHandler(body, fault) ==
    IF "malformed" \in DOMAIN body
    THEN [out |-> ErrorBody(400, <<"Invalid request body">>), users |-> users]
    ELSE LET r == MockConfirmSignUp(body.username, body.code, fault)
         IN  IF r.err # ""
             THEN [out |-> ErrorBody(500, <<"Failed to confirm sign up: ", r.err>>),
                   users |-> users]
             ELSE [out |-> [code |-> 200,
                            message |-> "Email confirmed successfully. You can now sign in."],
                   users |-> r.users]

\* mockSignInHandler
mockSignInHandler(body, token, fault) ==
    IF "malformed" \in DOMAIN body
    THEN ErrorBody(400, <<"Invalid request body">>)
    ELSE LET r == MockSignIn(body.username, body.password, token, fault)
         IN  IF r.err # ""
             THEN ErrorBody(401, <<"Failed to sign in: ", r.err>>)
             ELSE [code |-> 200, access_token |-> r.AccessToken, id_token |-> r.AccessToken]

----------------------------------------------------------------------------
(* Start-up: InitDB of database/db.go and its caller in main *)

maxRetries == 5

\* what one pass of the loop meets: sql.Open fails, Ping fails, or Ping succeeds
OpenFailed == "failed to connect to database"
PingFailed == "failed to ping database"
Connected == "connected"
Attempts == {OpenFailed, PingFailed, Connected}

\* every wait lasts one second
SleepOneSecond(i) == 1

\* time.Sleep(time.Second * time.Duration(i+1)): the seconds slept
SleepSeconds(i) == i + 1

\* the process as main calls InitDB
Starting ==
    [pc |-> "loop", i |-> 0, tried |-> << >>, slept |-> << >>, err |-> ""]

\* the process once InitDB has returned nil, the first Ping having succeeded
Booted ==
    [pc |-> "ready", i |-> 0, tried |-> <<Connected>>, slept |-> << >>, err |-> ""]

\* one pass of the retry loop up to its break, its continue or its return
Connect ==
    /\ boot.pc = "loop"
    /\ boot.i < maxRetries
    /\ \E met \in Attempts :
           boot' = [boot EXCEPT
                      !.tried = Append(@, met),
                      !.pc = IF met = Connected THEN "tables"
                             ELSE IF boot.i < maxRetries - 1 THEN "sleep"
                             ELSE "returned",
                      !.err = IF met # Connected /\ ~(boot.i < maxRetries - 1)
                              THEN met ELSE @]
    /\ UNCHANGED <<users, issued, files, results, objects, clock, resp, uploaded, delivered,
                 mu, running, signedOut, served>>

\* the wait before the next pass, and the loop's i++
Sleep ==
    /\ boot.pc = "sleep"
    /\ boot' = [boot EXCEPT !.slept = Append(@, SleepSeconds(boot.i)),
                            !.i = @ + 1,
                            !.pc = "loop"]
    /\ UNCHANGED <<users, issued, files, results, objects, clock, resp, uploaded, delivered,
                 mu, running, signedOut, served>>

\* the CREATE TABLE IF NOT EXISTS statements, which succeed or fail
CreateTables ==
    /\ boot.pc = "tables"
    /\ \E ok \in BOOLEAN :
           boot' = [boot EXCEPT !.pc = IF ok THEN "ready" ELSE "returned",
                                !.err = IF ok THEN @ ELSE "failed to create tables"]
    /\ UNCHANGED <<users, issued, files, results, objects, clock, resp, uploaded, delivered,
                 mu, running, signedOut, served>>

\* main: log.Fatalf when InitDB returned an error
Fatal ==
    /\ boot.pc = "returned"
    /\ boot' = [boot EXCEPT !.pc = "exited"]
    /\ UNCHANGED <<users, issued, files, results, objects, clock, resp, uploaded, delivered,
                 mu, running, signedOut, served>>

----------------------------------------------------------------------------
(* Goroutines: the calls of one API process that run at the same time *)

Goroutines == {"g1", "g2", "g3"}

\* a goroutine that has not been handed a request
Idle == [pc |-> "idle"]

\* sync.RWMutex with no holder
Unlocked == [writer |-> "", readers |-> {}]

----------------------------------------------------------------------------
(* The routes of main *)

\* every route behind the gate
ProtectedAlways(op) == TRUE

\* the routes registered on the subrouter that uses MockAuthMiddleware; the
\* others are registered on the router itself
Protected(op) == op \in {"getFile", "getResult"}

\* what stands between a request and its handler: the gate's 401, or code 0
\* when the handler is called
Gate(op, header) ==
    IF Protected(op) THEN MockAuthMiddleware(header) ELSE [code |-> 0]

----------------------------------------------------------------------------
(* The state machine *)

DeliveredKeys == WorkerKeys \ {KeyNoSlash}

\* ids a GET may name: the ids of the model and one that is never uploaded
IdNever == <<"z">>
RequestIds == ClientIds \cup Uuids \cup {IdNever}

Init ==
    /\ users = {}
    /\ issued = {}
    /\ files = << >>
    /\ results = << >>
    /\ objects = << >>
    /\ clock = 0
    /\ resp = [op |-> "start"]
    /\ uploaded = << >>
    /\ delivered = [k \in DeliveredKeys |-> 0]
    /\ boot = Booted
    /\ mu = Unlocked
    /\ running = [p \in Goroutines |-> Idle]
    /\ signedOut = {}
    /\ served = {}

\* time passes
Tick ==
    /\ clock < MaxClock
    /\ clock' = clock + 1
    /\ UNCHANGED <<users, issued, files, results, objects, resp, uploaded, delivered, boot,
                         mu, running, signedOut, served>>

\* POST /api/files, sent without an Authorization header
Upload(bodies, faults) ==
    \E body \in bodies, fault \in faults :
      \E fresh \in (IF "malformed" \notin DOMAIN body /\ body.id = EmptyStr
                     THEN Uuids \ DOMAIN files ELSE {EmptyStr}) :
        LET gate == Gate("upload", HdrNone)
            r == IF gate.code # 0
                 THEN [out |-> gate, id |-> EmptyStr, files |-> files, objects |-> objects]
                 ELSE uploadFileHandler(body, fresh, fault)
        IN  /\ "malformed" \in DOMAIN body => fault = NoFault
            /\ files' = r.files
            /\ objects' = r.objects
            /\ resp' = [op |-> "upload", header |-> HdrNone, reached |-> gate.code = 0,
                        body |-> body, fault |-> fault, id |-> r.id, out |-> r.out]
            /\ uploaded' = IF r.out.code = 201
                            THEN [i \in DOMAIN uploaded \cup {r.id} |->
                                     IF i = r.id THEN body.content ELSE uploaded[i]]
                            ELSE uploaded
            /\ UNCHANGED <<users, issued, results, clock, delivered, boot,
                         mu, running, signedOut, served>>

\* the upload answered 201 that the coming request follows at once, if any
NoUpload == [none |-> TRUE]
JustUploaded ==
    IF resp.op = "upload" /\ resp.out.code = 201
    THEN [id |-> resp.out.id, name |-> resp.body.name, content |-> resp.body.content]
    ELSE NoUpload

\* GET /api/files/{id}, behind MockAuthMiddleware
GetFile(headers, ids, faults) ==
    \E header \in headers, id \in ids, fault \in faults :
        LET gate == Gate("getFile", header)
            r == getFileHandler(id, fault)
        IN  /\ resp' = IF gate.code # 0
                        THEN [op |-> "getFile", header |-> header, id |-> id,
                              fault |-> fault, reached |-> FALSE, out |-> gate,
                              calls |-> << >>, follows |-> JustUploaded]
                        ELSE [op |-> "getFile", header |-> header, id |-> id,
                              fault |-> fault, reached |-> TRUE, out |-> r.out,
                              calls |-> r.calls, follows |-> JustUploaded]
            /\ gate.code # 0 => fault = NoFault
            /\ UNCHANGED <<users, issued, files, results, objects, clock, uploaded, delivered, boot,
                         mu, running, signedOut, served>>

\* GET /api/files/{id}/result, behind MockAuthMiddleware
GetResult(headers, ids, faults) ==
    \E header \in headers, id \in ids, fault \in faults :
      \E row \in (IF ScannedRows(id) = {} THEN {0} ELSE ScannedRows(id)) :
        LET gate == Gate("getResult", header)
            r == getResultHandler(id, row, fault)
        IN  /\ resp' = IF gate.code # 0
                        THEN [op |-> "getResult", header |-> header, id |-> id,
                              fault |-> fault, reached |-> FALSE, out |-> gate,
                              calls |-> << >>]
                        ELSE [op |-> "getResult", header |-> header, id |-> id,
                              fault |-> fault, reached |-> TRUE, out |-> r.out,
                              calls |-> r.calls]
            /\ gate.code # 0 => fault = NoFault
            /\ served' = IF gate.code = 0 /\ r.out.code = 200 /\ r.out.status = "completed"
                         THEN served \cup {id} ELSE served
            /\ UNCHANGED <<users, issued, files, results, objects, clock, uploaded, delivered, boot,
                         mu, running, signedOut>>

\* one invocation of the worker on a batch
Worker(events) ==
    \E sqsEvent \in events :
        LET r == HandleSQSEvent(sqsEvent)
            count == [k \in DeliveredKeys |-> delivered[k] + CleanDeliveries(sqsEvent, k)]
        IN  /\ SumOver(count, DeliveredKeys) <= MaxDeliveries
            /\ results' = r.results
            /\ delivered' = count
            /\ resp' = [op |-> "worker", event |-> sqsEvent, err |-> r.err, log |-> r.log,
                        calls |-> r.calls]
            /\ UNCHANGED <<users, issued, files, objects, clock, uploaded, boot,
                         mu, running, signedOut, served>>

SignUpBodies ==
    {BadBody} \cup [username : Usernames, password : Passwords, email : Emails]
ConfirmBodies == {BadBody} \cup [username : Usernames, code : Codes]
SignInBodies == {BadBody} \cup [username : Usernames, password : Passwords]

\* POST /api/auth/signup, sent without an Authorization header
SignUpOf(bodies, faults) ==
    \E body \in bodies, fault \in faults :
        LET gate == Gate("signUp", HdrNone)
            r == IF gate.code # 0 THEN [out |-> gate, users |-> users]
                 ELSE mockSignUpHandler(body, fault)
        IN  /\ "malformed" \in DOMAIN body => fault = NoFault
            /\ users' = r.users
            /\ resp' = [op |-> "signUp", header |-> HdrNone, reached |-> gate.code = 0,
                        body |-> body, fault |-> fault, out |-> r.out]
            /\ UNCHANGED <<issued, files, results, objects, clock, uploaded, delivered, boot,
                         mu, running, signedOut, served>>

SignUp == SignUpOf(SignUpBodies, {NoFault, FaultDB, FaultDB2, FaultDB3})

\* POST /api/auth/confirm, sent without an Authorization header
ConfirmOf(bodies, faults) ==
    \E body \in bodies, fault \in faults :
        LET gate == Gate("confirm", HdrNone)
            r == IF gate.code # 0 THEN [out |-> gate, users |-> users]
                 ELSE mockConfirmSignUpHandler(body, fault)
        IN  /\ "malformed" \in DOMAIN body => fault = NoFault
            /\ users' = r.users
            /\ resp' = [op |-> "confirm", header |-> HdrNone, reached |-> gate.code = 0,
                        body |-> body, fault |-> fault, out |-> r.out]
            /\ UNCHANGED <<issued, files, results, objects, clock, uploaded, delivered, boot,
                         mu, running, signedOut, served>>

Confirm == ConfirmOf(ConfirmBodies, {NoFault, FaultDB, FaultDB2})

\* POST /api/auth/signin, sent without an Authorization header
SignInOf(bodies, faults) ==
    \E body \in bodies, fault \in faults, token \in Tokens :
        LET gate == Gate("signIn", HdrNone)
            out == IF gate.code # 0 THEN gate ELSE mockSignInHandler(body, token, fault)
        IN  /\ "malformed" \in DOMAIN body => fault = NoFault
            /\ issued' = IF out.code = 200 THEN issued \cup {out.access_token} ELSE issued
            /\ resp' = [op |-> "signIn", header |-> HdrNone, reached |-> gate.code = 0,
                        body |-> body, fault |-> fault, out |-> out]
            /\ UNCHANGED <<users, files, results, objects, clock, uploaded, delivered, boot,
                         mu, running, signedOut, served>>

SignIn == SignInOf(SignInBodies, {NoFault, FaultDB})

\* a call of MockSignOut; no route of main leads to it
SignOut(tokens) ==
    \E token \in tokens :
        /\ resp' = [op |-> "signOut", token |-> token, err |-> MockSignOut(token).err]
        /\ signedOut' = signedOut \cup {token}
        /\ UNCHANGED <<users, issued, files, results, objects, clock, uploaded, delivered,
                       boot, mu, running, served>>

FileFaults == {NoFault, FaultDB, FaultS3, FaultRead}
ResultFaults == {NoFault, FaultDB, FaultDB2}
UploadFaults == {NoFault, FaultDB, FaultS3}

\* a request with no Authorization header and one the gate lets through
PipelineHeaders == {HdrNone, HdrBearer(ForgedToken)}

\* the state in which main calls InitDB
InitStart ==
    /\ users = {}
    /\ issued = {}
    /\ files = << >>
    /\ results = << >>
    /\ objects = << >>
    /\ clock = 0
    /\ resp = [op |-> "start"]
    /\ uploaded = << >>
    /\ delivered = [k \in DeliveredKeys |-> 0]
    /\ boot = Starting
    /\ mu = Unlocked
    /\ running = [p \in Goroutines |-> Idle]
    /\ signedOut = {}
    /\ served = {}

\* Start-up.  Each step ends: sql.Open and Ping return, time.Sleep returns,
\* Exec returns, log.Fatalf exits.
NextInit == Connect \/ Sleep \/ CreateTables \/ Fatal

SpecInit == InitStart /\ [][NextInit]_vars /\ WF_vars(NextInit)

\* Uploads and fetches: POST /api/files and GET /api/files/{id}
NextFiles ==
    \/ Upload(UploadBodies, UploadFaults)
    \/ GetFile(PipelineHeaders, RequestIds, FileFaults)

SpecFiles == Init /\ [][NextFiles]_vars

\* the uploads of the processing pipeline: an id, a name, either content
PipelineBodies == [id : ClientIds, name : {NameC}, content : Contents]

\* the batches of the processing pipeline
PipelineEvents ==
    {<<Msg(<<Rec(bucketName, k, f)>>)>> :
        k \in {S3Key(IdA, NameC), S3Key(IdAB, NameC), KeyNoSlash}, f \in {NoFault, FaultS3}}
    \cup {<<BadBody>>,
          <<Msg(<<Rec(bucketName, KeyNoSlash, NoFault), Rec(bucketName, S3Key(IdA, NameC), NoFault)>>)>>,
          <<BadBody, Msg(<<Rec(bucketName, S3Key(IdAB, NameC), NoFault)>>)>>}

\* The upload, processing and result pipeline
Next ==
    \/ Upload(PipelineBodies, {NoFault})
    \/ Worker(PipelineEvents)
    \/ GetResult({HdrBearer(ForgedToken)}, RequestIds, ResultFaults)
    \/ Tick

Spec == Init /\ [][Next]_vars

\* the one upload of the sign-up and sign-in machine
AuthBodies == [id : {IdA}, name : {NameC}, content : {TextHiYo}]

\* Sign-up, confirmation, sign-in, and the requests the gate guards
NextAuth ==
    \/ SignUp
    \/ Confirm
    \/ SignIn
    \/ Upload(AuthBodies, {NoFault})
    \/ GetFile(Headers, {IdA, IdNever}, {NoFault})
    \/ GetResult(Headers, {IdA, IdNever}, {NoFault})

SpecAuth == Init /\ [][NextAuth]_vars

\* the uploads whose notifications the worker is handed
WorkerBodies == [id : ClientIds \cup {EmptyStr}, name : Names, content : {TextHiYo}]

\* batches in which a record that fails, in each way a record can fail, is
\* followed by records that do not
IsolationEvents ==
    {<<Msg(<<Rec(bucketName, S3Key(IdA, NameC), f),
             Rec(bucketName, S3Key(IdA, NameC), NoFault)>>)>> : f \in WorkerFaults}
    \cup {<<Msg(<<Rec(bucketName, S3Key(IdAB, NameC), NoFault),
                  Rec(bucketName, S3Key(i, NameC), NoFault)>>)>> : i \in Uuids}
    \cup {<<BadBody, Msg(<<Rec(bucketName, KeyNoSlash, NoFault)>>),
            Msg(<<Rec(bucketName, S3Key(IdA, NameC), NoFault)>>)>>,
          <<Msg(<<Rec(bucketName, EmptyStr, NoFault)>>)>>}

\* Uploads and the worker, handed every batch of the model
NextWorker ==
    \/ Upload(WorkerBodies, {NoFault})
    \/ Worker(Events \cup IsolationEvents)

SpecWorker == Init /\ [][NextWorker]_vars

\* the requests and batches of the whole service: one user, one client id
AllUploads == [id : {IdA}, name : Names, content : {TextHiYo}]
AllSignUps == {[username |-> "alice", password |-> "pw1", email |-> "a@x.io"]}
AllConfirms == {[username |-> "alice", code |-> "123456"]}
AllSignIns == [username : {"alice"}, password : Passwords]
AllEvents ==
    {<<Msg(<<Rec(bucketName, S3Key(IdA, NameC), f)>>)>> : f \in {NoFault, FaultS3, FaultDB}}
    \cup {<<BadBody>>}

\* Every route of the API, with the failures of the services behind it, and
\* the worker
NextAll ==
    \/ SignUpOf(AllSignUps, {NoFault, FaultDB})
    \/ ConfirmOf(AllConfirms, {NoFault, FaultDB2})
    \/ SignInOf(AllSignIns, {NoFault, FaultDB})
    \/ Upload(AllUploads, UploadFaults)
    \/ GetFile(PipelineHeaders, {IdA, IdNever}, FileFaults)
    \/ GetResult(PipelineHeaders, {IdA, IdNever}, ResultFaults)
    \/ Worker(AllEvents)
    \/ Tick

SpecAll == Init /\ [][NextAll]_vars

----------------------------------------------------------------------------
(* The mock provider's calls, step by step, under mockProvider.mu *)

\* the calls goroutines make at the same time: sign-ups that collide on the
\* username or on the email, one whose first query fails, a confirmation and
\* a sign-in
LockCalls ==
    {[op |-> "signUp", username |-> "alice", password |-> "pw1", email |-> e,
      fault |-> NoFault] : e \in Emails}
    \cup {[op |-> "signUp", username |-> "bob", password |-> "pw1", email |-> "a@x.io",
           fault |-> NoFault]}
    \cup {[op |-> "signUp", username |-> "alice", password |-> "pw1", email |-> "a@x.io",
           fault |-> FaultDB],
          [op |-> "confirm", username |-> "alice", fault |-> NoFault],
          [op |-> "signIn", username |-> "alice", password |-> "pw1", fault |-> NoFault]}

\* RLock that does not wait for the writer
CanRLockAnyway(m) == TRUE

\* mu.Lock() returns when no goroutine holds the mutex
CanLock(m) == m.writer = "" /\ m.readers = {}

\* mu.RLock() returns when no goroutine holds it for writing
CanRLock(m) == m.writer = ""

\* a goroutine is handed a call of the provider
Call(p) ==
    /\ running[p].pc = "idle"
    /\ \E c \in LockCalls :
           running' = [running EXCEPT ![p] = [pc |-> "lock", call |-> c, err |-> ""]]
    /\ UNCHANGED <<users, issued, files, results, objects, clock, resp, uploaded, delivered,
                   boot, mu, signedOut, served>>

\* mu.Lock() in MockSignUp and MockConfirmSignUp, mu.RLock() in MockSignIn
Acquire(p) ==
    /\ running[p].pc = "lock"
    /\ IF running[p].call.op = "signIn"
       THEN /\ CanRLock(mu)
            /\ mu' = [mu EXCEPT !.readers = @ \cup {p}]
       ELSE /\ CanLock(mu)
            /\ mu' = [mu EXCEPT !.writer = p]
    /\ running' = [running EXCEPT ![p].pc = "byUsername"]
    /\ UNCHANGED <<users, issued, files, results, objects, clock, resp, uploaded, delivered,
                   boot, signedOut, served>>

\* database.GetUserByUsername and what each call does with its answer
ByUsername(p) ==
    /\ running[p].pc = "byUsername"
    /\ LET c == running[p].call
           found == UserRows(users, c.username)
       IN  running' = [running EXCEPT ![p] =
             IF c.fault = FaultDB THEN [@ EXCEPT !.err = DBError, !.pc = "unlock"]
             ELSE IF c.op = "signUp"
             THEN IF found # {} THEN [@ EXCEPT !.err = "user already exists", !.pc = "unlock"]
                  ELSE [@ EXCEPT !.pc = "byEmail"]
             ELSE IF c.op = "confirm"
             THEN IF found = {} THEN [@ EXCEPT !.err = "user not found", !.pc = "unlock"]
                  ELSE [@ EXCEPT !.pc = "update"]
             ELSE IF found = {} THEN [@ EXCEPT !.err = "user not found", !.pc = "unlock"]
                  ELSE LET user == CHOOSE u \in found : TRUE
                       IN  IF user.password # c.password
                           THEN [@ EXCEPT !.err = "invalid password", !.pc = "unlock"]
                           ELSE IF ~user.confirmed
                           THEN [@ EXCEPT !.err = "user not confirmed", !.pc = "unlock"]
                           ELSE [@ EXCEPT !.pc = "unlock"]]
    /\ UNCHANGED <<users, issued, files, results, objects, clock, resp, uploaded, delivered,
                   boot, mu, signedOut, served>>

\* database.GetUserByEmail in MockSignUp
ByEmail(p) ==
    /\ running[p].pc = "byEmail"
    /\ running' = [running EXCEPT ![p] =
           IF EmailRows(users, running[p].call.email) # {}
           THEN [@ EXCEPT !.err = "email already exists", !.pc = "unlock"]
           ELSE [@ EXCEPT !.pc = "save"]]
    /\ UNCHANGED <<users, issued, files, results, objects, clock, resp, uploaded, delivered,
                   boot, mu, signedOut, served>>

\* database.SaveUser in MockSignUp
Save(p) ==
    /\ running[p].pc = "save"
    /\ LET c == running[p].call
       IN  IF UsersInsertFails(users, c.username, c.email, c.fault)
           THEN /\ running' = [running EXCEPT ![p].err = DBError, ![p].pc = "unlock"]
                /\ users' = users
           ELSE /\ running' = [running EXCEPT ![p].pc = "unlock"]
                /\ users' = SaveUser(users, c.username, c.password, c.email)
    /\ UNCHANGED <<issued, files, results, objects, clock, resp, uploaded, delivered,
                   boot, mu, signedOut, served>>

\* database.ConfirmUser in MockConfirmSignUp
Update(p) ==
    /\ running[p].pc = "update"
    /\ users' = ConfirmUser(users, running[p].call.username)
    /\ running' = [running EXCEPT ![p].pc = "unlock"]
    /\ UNCHANGED <<issued, files, results, objects, clock, resp, uploaded, delivered,
                   boot, mu, signedOut, served>>

\* the deferred mu.Unlock() or mu.RUnlock(), run on every return
Release(p) ==
    /\ running[p].pc = "unlock"
    /\ mu' = IF running[p].call.op = "signIn"
             THEN [mu EXCEPT !.readers = @ \ {p}]
             ELSE [mu EXCEPT !.writer = ""]
    /\ running' = [running EXCEPT ![p].pc = "done"]
    /\ UNCHANGED <<users, issued, files, results, objects, clock, resp, uploaded, delivered,
                   boot, signedOut, served>>

\* The provider's calls of three goroutines, interleaved.  A goroutine that
\* can take a step is scheduled in the end.
NextLock ==
    \E p \in Goroutines :
        \/ Call(p)
        \/ Acquire(p)
        \/ ByUsername(p)
        \/ ByEmail(p)
        \/ Save(p)
        \/ Update(p)
        \/ Release(p)

SpecLock == Init /\ [][NextLock]_vars /\ WF_vars(NextLock)

\* the headers of a session: none, and a Bearer header for each token
SessionHeaders == {HdrNone} \cup {HdrBearer(t) : t \in Tokens \cup {ForgedToken}}

\* Sign-up to sign-out, and the guarded requests made with the tokens
NextSession ==
    \/ SignUpOf(AllSignUps, {NoFault})
    \/ ConfirmOf(AllConfirms, {NoFault})
    \/ SignInOf(AllSignIns, {NoFault})
    \/ SignOut(Tokens \cup {ForgedToken})
    \/ Upload(AuthBodies, {NoFault})
    \/ GetFile(SessionHeaders, {IdA, IdNever}, {NoFault})
    \/ GetResult(SessionHeaders, {IdA, IdNever}, {NoFault})

SpecSession == Init /\ [][NextSession]_vars

----------------------------------------------------------------------------
(* uploadFileHandler, statement by statement, in goroutines that race *)

\* the uploads that race: either id, either content, and one whose PutObject
\* fails
UploadCalls ==
    [op : {"upload"}, id : ClientIds, name : {NameC}, content : Contents, fault : {NoFault}]
    \cup {[op |-> "upload", id |-> IdA, name |-> NameC, content |-> TextHiYo,
           fault |-> FaultS3]}

\* the object is written whatever the INSERT returned
AfterInsertAlwaysPut(failed) == "put"

\* after the INSERT: the handler returns on an error, and goes on to
\* PutObject otherwise
AfterInsert(failed) == IF failed THEN "done" ELSE "put"

\* the handler has decoded the body and formed the id and the key
Begin(p) ==
    /\ running[p].pc = "idle"
    /\ \E c \in UploadCalls :
           running' = [running EXCEPT ![p] = [pc |-> "insert", call |-> c,
                                              out |-> [code |-> 0]]]
    /\ UNCHANGED <<users, issued, files, results, objects, clock, resp, uploaded, delivered,
                   boot, mu, signedOut, served>>

\* INSERT INTO files
InsertRow(p) ==
    /\ running[p].pc = "insert"
    /\ LET c == running[p].call
           failed == FilesInsertFails(files, c.id, c.fault)
       IN  /\ files' = IF failed THEN files
                       ELSE FilesInsert(files, c.id, c.name, S3Key(c.id, c.name), clock)
           /\ running' = [running EXCEPT
                            ![p].pc = AfterInsert(failed),
                            ![p].out = IF failed
                                       THEN ErrorBody(500, "Error saving file metadata")
                                       ELSE @]
    /\ UNCHANGED <<users, issued, results, objects, clock, resp, uploaded, delivered,
                   boot, mu, signedOut, served>>

\* s3Client.PutObject, and the answer
PutContent(p) ==
    /\ running[p].pc = "put"
    /\ LET c == running[p].call
       IN  IF c.fault = FaultS3
           THEN /\ running' = [running EXCEPT
                                 ![p].pc = "done",
                                 ![p].out = ErrorBody(500, "Error uploading file")]
                /\ UNCHANGED <<objects, uploaded>>
           ELSE /\ running' = [running EXCEPT
                                 ![p].pc = "done",
                                 ![p].out = [code |-> 201, id |-> c.id,
                                             status |-> "uploaded"]]
                /\ objects' = PutObject(objects, S3Key(c.id, c.name), c.content)
                /\ uploaded' = [i \in DOMAIN uploaded \cup {c.id} |->
                                   IF i = c.id THEN c.content ELSE uploaded[i]]
    /\ UNCHANGED <<users, issued, files, results, clock, resp, delivered,
                   boot, mu, signedOut, served>>

\* the notifications of the racing uploads' objects
RaceEvents ==
    {<<Msg(<<Rec(bucketName, S3Key(i, NameC), NoFault)>>)>> : i \in ClientIds}

\* Uploads of three goroutines, interleaved with each other and with the
\* worker
NextRace ==
    \/ \E p \in Goroutines : Begin(p) \/ InsertRow(p) \/ PutContent(p)
    \/ Worker(RaceEvents)

SpecRace == Init /\ [][NextRace]_vars

----------------------------------------------------------------------------
(* The pipeline with a client that keeps asking for the result *)

\* the notifications of the pipeline's objects, each delivered alone and
\* with no store failing
LiveEvents ==
    {<<Msg(<<Rec(bucketName, S3Key(i, NameC), NoFault)>>)>> : i \in ClientIds}

\* GET /api/files/{id}/result for one id, with the database answering
Poll(id) == GetResult({HdrBearer(ForgedToken)}, {id}, {NoFault})

NextLive ==
    \/ Upload(PipelineBodies, {NoFault})
    \/ Worker(LiveEvents)
    \/ \E id \in ClientIds : Poll(id)

\* The server answers every request it is sent, and the client goes on
\* asking for the result of each id until the answer stands.
SpecLive ==
    Init /\ [][NextLive]_vars /\ \A id \in ClientIds : WF_vars(Poll(id))

----------------------------------------------------------------------------
(* Requests that only read, and requests that are refused *)

\* two sign-ups that share an email address
ReadSignUps ==
    {[username |-> "alice", password |-> "pw1", email |-> "a@x.io"],
     [username |-> "bob", password |-> "pw1", email |-> "a@x.io"]}

\* an upload whose body does not decode, and one that does
ReadUploads == {BadBody, [id |-> IdA, name |-> NameC, content |-> TextHiYo]}

NextReads ==
    \/ SignUpOf(ReadSignUps, {NoFault})
    \/ ConfirmOf(AllConfirms, {NoFault})
    \/ SignInOf(AllSignIns, {NoFault})
    \/ Upload(ReadUploads, {NoFault})
    \/ GetFile(SessionHeaders, {IdA, IdNever}, {NoFault, FaultS3})
    \/ GetResult(SessionHeaders, {IdA, IdNever}, {NoFault})
    \/ Worker(LiveEvents)

SpecReads == Init /\ [][NextReads]_vars

----------------------------------------------------------------------------
(* The data-access functions of package database *)

\* the columns of processing_results that are NOT NULL and have no DEFAULT:
\* id is the primary key
RequiredColumns == {"id", "file_id", "status", "result"}

\* the columns the INSERT of SaveProcessingResult names
SavedColumns == {"file_id", "status", "result"}

\* SaveProcessingResult: the error it returns and the table afterwards
SaveProcessingResult(fileID, status, result, fault) ==
    IF \/ fault = FaultDB
       \/ ~(RequiredColumns \subseteq SavedColumns)
       \/ fileID \notin DOMAIN files
    THEN [err |-> DBError, results |-> results]
    ELSE [err |-> "nil", results |-> ResultsInsert(results, fileID, status, result, clock)]

\* GetProcessingResultByFileID: the values it may return.  ORDER BY
\* created_at DESC LIMIT 1 yields a row no other row of the file is newer
\* than; sql.ErrNoRows becomes nil, nil.
GetProcessingResultByFileID(fileID, fault) ==
    IF fault = FaultDB THEN {[record |-> "nil", err |-> DBError]}
    ELSE IF ResultRows(results, fileID) = {} THEN {[record |-> "nil", err |-> "nil"]}
    ELSE {[record |-> results[i], err |-> "nil"] :
            i \in {j \in ResultRows(results, fileID) :
                     \A k \in ResultRows(results, fileID) :
                         results[k].created_at <= results[j].created_at}}

Statuses == {"completed", "failed"}
ResultTexts == {"done", ""}

\* a call of SaveProcessingResult
SaveResult(ids, faults) ==
    \E fileID \in ids, status \in Statuses, result \in ResultTexts, fault \in faults :
        LET r == SaveProcessingResult(fileID, status, result, fault)
        IN  /\ results' = r.results
            /\ resp' = [op |-> "saveResult", file_id |-> fileID, status |-> status,
                        result |-> result, fault |-> fault, err |-> r.err]
            /\ UNCHANGED <<users, issued, files, objects, clock, uploaded, delivered, boot,
                           mu, running, signedOut, served>>

\* a call of GetProcessingResultByFileID
GetLatest(ids, faults) ==
    \E fileID \in ids, fault \in faults :
      \E out \in GetProcessingResultByFileID(fileID, fault) :
        /\ resp' = [op |-> "getLatest", file_id |-> fileID, fault |-> fault,
                    record |-> out.record, err |-> out.err]
        /\ UNCHANGED <<users, issued, files, results, objects, clock, uploaded, delivered,
                       boot, mu, running, signedOut, served>>

\* The data-access functions called on the tables the service and the
\* worker fill
NextData ==
    \/ Upload(PipelineBodies, {NoFault})
    \/ Worker(LiveEvents)
    \/ SaveResult(RequestIds, {NoFault, FaultDB})
    \/ GetLatest(RequestIds, {NoFault, FaultDB})
    \/ Tick

SpecData == Init /\ [][NextData]_vars

----------------------------------------------------------------------------
(* Properties of uploads and fetches, under SpecFiles *)

Range(f) == {f[i] : i \in DOMAIN f}

\* C1: a GET /api/files/{id} that passes the gate, meets no failure of the
\* database or the object store, and follows at once the upload that was
\* answered 201 with that id, is answered 200 with the content and the name
\* that upload submitted.
C1_UploadFetchRoundTrip ==
    (/\ resp.op = "getFile"
     /\ resp.reached
     /\ resp.fault = NoFault
     /\ "none" \notin DOMAIN resp.follows
     /\ resp.follows.id = resp.id)
    => (/\ resp.out.code = 200
        /\ resp.out.content = resp.follows.content
        /\ resp.out.name = resp.follows.name)

C1_Witness ==
    /\ resp.op = "getFile"
    /\ resp.reached
    /\ resp.fault = NoFault
    /\ "none" \notin DOMAIN resp.follows
    /\ resp.follows.id = resp.id
    /\ resp.out.code = 200
    /\ resp.out.content = TextAccent
    /\ resp.out.name = NameBC

\* the files whose upload inserted the row and then failed to write the object
Orphan(id) == id \in DOMAIN files /\ id \notin DOMAIN uploaded

\* C6: an upload whose object write fails after its row was inserted is
\* answered 500, leaves the row in the table and writes no object; no step
\* removes or changes a row of files; and a GET /api/files/{id} that reaches
\* the handler for such a file is answered 500 while the object is missing.
C6_OrphanedWrite ==
    [][/\ (/\ resp'.op = "upload"
           /\ resp' # resp
           /\ resp'.fault = FaultS3
           /\ resp'.id \notin DOMAIN files)
          => (/\ resp'.out.code = 500
              /\ resp'.id \in DOMAIN files'
              /\ objects' = objects)
       /\ \A i \in DOMAIN files : i \in DOMAIN files' /\ files'[i] = files[i]
       /\ (/\ resp'.op = "getFile"
           /\ resp'.reached
           /\ resp'.id \in DOMAIN files'
           /\ resp'.id \notin DOMAIN uploaded'
           /\ files'[resp'.id].s3_key \notin DOMAIN objects')
          => resp'.out.code = 500
      ]_vars

C6_Witness ==
    /\ resp.op = "getFile"
    /\ resp.reached
    /\ resp.fault = NoFault
    /\ Orphan(resp.id)
    /\ files[resp.id].s3_key \notin DOMAIN objects
    /\ resp.out.code = 500
    /\ resp.calls = <<"db", "s3">>

\* C7: a GET /api/files/{id} that reaches the handler, for an id with no row
\* in files, is answered 404 when the query itself does not fail, and makes
\* no call to the object store.
C7_UnknownFileNotFound ==
    (/\ resp.op = "getFile"
     /\ resp.reached
     /\ resp.id \notin DOMAIN files)
    => (/\ resp.fault # FaultDB => resp.out.code = 404
        /\ "s3" \notin Range(resp.calls))

C7_Witness ==
    /\ resp.op = "getFile"
    /\ resp.reached
    /\ resp.id = IdA
    /\ IdA \notin DOMAIN files
    /\ IdAB \in DOMAIN files
    /\ resp.out.code = 404
    /\ resp.calls = <<"db">>

----------------------------------------------------------------------------
(* Properties of processing and of the result lookup, under Spec *)

\* the words and the characters of a text, as the specification counts them
WordCount(text) == Len(Fields(text))
CharacterCount(text) == RuneCount(text)

\* a result lookup that reached the handler and met no database failure
ResultServed ==
    resp.op = "getResult" /\ resp.reached /\ resp.fault = NoFault

\* C2: once the worker has handled, with no failure of a dependent service,
\* a notification for the storage key of an uploaded file, the result lookup
\* for that file answers "completed" and "Processed file with W words and C
\* characters", W and C the words and the characters of the uploaded content.
C2_CompletedWithCounts ==
    (/\ ResultServed
     /\ resp.id \in DOMAIN uploaded
     /\ delivered[files[resp.id].s3_key] > 0)
    => (/\ resp.out.code = 200
        /\ resp.out.status = "completed"
        /\ resp.out.result = ProcessedResult(WordCount(uploaded[resp.id]),
                                             CharacterCount(uploaded[resp.id])))

\* C3: a result lookup is answered 404 when there is neither a row of files
\* nor a result row for the id, 200 with status "processing" when the file
\* exists and no result row names it, and otherwise with the id, status,
\* result and created_at of a stored result row of that file.
C3_ResultLookupCases ==
    ResultServed =>
        LET rows == ResultRows(results, resp.id)
        IN  /\ (rows = {} /\ resp.id \notin DOMAIN files) => resp.out.code = 404
            /\ (rows = {} /\ resp.id \in DOMAIN files) =>
                   (resp.out.code = 200 /\ resp.out.status = "processing")
            /\ rows # {} =>
                   \E i \in rows :
                       resp.out = [code |-> 200, id |-> results[i].id,
                                   status |-> results[i].status,
                                   result |-> results[i].result,
                                   created_at |-> results[i].created_at]

C3_Witness ==
    /\ ResultServed
    /\ resp.id = IdAB
    /\ IdAB \in DOMAIN files
    /\ Len(results) > 0
    /\ resp.out.code = 200
    /\ resp.out.status = "processing"

\* C4: when several result rows name the file, the lookup answers with the
\* one whose created_at is greatest.
C4_LatestResultServed ==
    (ResultServed /\ ResultRows(results, resp.id) # {})
    => \A i \in ResultRows(results, resp.id) :
           results[i].created_at <= resp.out.created_at

\* C5: the worker returns nil whatever it is handed; and once the
\* notification of an uploaded file was handled twice, with no failure of a
\* dependent service, the file has one or two result rows, all with the same
\* status and result.
C5_RedeliveryRows ==
    /\ resp.op = "worker" => resp.err = "nil"
    /\ \A id \in DOMAIN uploaded :
           delivered[files[id].s3_key] = 2 =>
               LET rows == ResultRows(results, id)
               IN  /\ Cardinality(rows) \in {1, 2}
                   /\ \A i, j \in rows :
                          /\ results[i].status = results[j].status
                          /\ results[i].result = results[j].result

----------------------------------------------------------------------------
(* Properties of the gate and of the user store, under SpecAuth *)

Guarded == resp.op \in {"getFile", "getResult"}

\* a header that is absent, or is not two space-separated parts the first of
\* which is "Bearer"
Malformed(header) ==
    \/ header = EmptyStr
    \/ Len(Split(header, Space)) # 2
    \/ Split(header, Space)[1] # Bearer

\* C8: a request to a guarded route with no Authorization header, or with one
\* that is not "Bearer" and one more space-separated part, is answered 401;
\* the handler is not reached and no database or object-store call is made.
C8_MalformedHeaderRejected ==
    (Guarded /\ Malformed(resp.header))
    => (/\ resp.out.code = 401
        /\ ~resp.reached
        /\ resp.calls = << >>)

C8_Witness ==
    /\ resp.op = "getFile"
    /\ resp.header = HdrThreeParts
    /\ resp.id = IdA
    /\ IdA \in DOMAIN files
    /\ resp.out.code = 401
    /\ ~resp.reached

\* C9: a request to a guarded route whose header is "Bearer t", t a token no
\* successful sign-in has returned, is answered 401 and does not reach the
\* handler.
C9_UnissuedTokenRejected ==
    (/\ Guarded
     /\ ~Malformed(resp.header)
     /\ Split(resp.header, Space)[2] \notin issued)
    => (resp.out.code = 401 /\ ~resp.reached)

UsersUnique ==
    \A u, v \in users :
        (u.username = v.username \/ u.email = v.email) => u = v

AlreadyExists == {"user already exists", "email already exists"}

\* C10: no two rows of users share a username or an email; and a sign-up,
\* meeting no database failure, whose username or email a stored user has,
\* fails with an already-exists error and leaves the table as it was.
C10_SignUpUnique ==
    [][/\ UsersUnique'
       /\ (/\ resp'.op = "signUp"
           /\ resp' # resp
           /\ resp'.fault = NoFault
           /\ "malformed" \notin DOMAIN resp'.body
           /\ \E u \in users :
                  u.username = resp'.body.username \/ u.email = resp'.body.email)
          => (/\ resp'.out.code = 500
              /\ resp'.out.error[2] \in AlreadyExists
              /\ users' = users)
      ]_vars

C10_Witness ==
    /\ resp.op = "signUp"
    /\ resp.fault = NoFault
    /\ resp.out.code = 500
    /\ resp.out.error[2] = "email already exists"
    /\ users # {}
    /\ \A u \in users : u.username # resp.body.username
    /\ \E u \in users : u.email = resp.body.email

\* the stored user a sign-in request names with its password, confirmed
Admissible(body) ==
    \E u \in users :
        u.username = body.username /\ u.password = body.password /\ u.confirmed

\* C11: a sign-in with a well-formed body, meeting no database failure, is
\* answered 200 with a non-empty access token exactly when a stored user has
\* that username, that password and is confirmed; every other such sign-in
\* is answered 401.
C11_SignInIff ==
    (/\ resp.op = "signIn"
     /\ "malformed" \notin DOMAIN resp.body
     /\ resp.fault = NoFault)
    => IF Admissible(resp.body)
       THEN /\ resp.out.code = 200
            /\ resp.out.access_token # EmptyStr
            /\ resp.out.access_token \in issued
       ELSE resp.out.code = 401

C11_Witness ==
    /\ resp.op = "signIn"
    /\ resp.fault = NoFault
    /\ resp.out.code = 200
    /\ resp.out.access_token # EmptyStr
    /\ \E u \in users : u.username # resp.body.username /\ ~u.confirmed

\* the table tbl with the user called name confirmed and nothing else changed
WithConfirmed(tbl, name) ==
    {[username |-> u.username, password |-> u.password, email |-> u.email,
      confirmed |-> (u.confirmed \/ u.username = name)] : u \in tbl}

\* C12: a confirmation with a well-formed body, meeting no database failure,
\* fails with "user not found" and leaves the table as it was when no user
\* has the username; otherwise, whatever the code, it succeeds, the user is
\* confirmed, every other user and every other field is as before, and the
\* same confirmation again would leave the table as it now is.
C12_ConfirmSignUp ==
    [][(/\ resp'.op = "confirm"
        /\ "malformed" \notin DOMAIN resp'.body
        /\ resp'.fault = NoFault)
       => IF \A u \in users : u.username # resp'.body.username
          THEN /\ resp'.out.code = 500
               /\ resp'.out.error[2] = "user not found"
               /\ users' = users
          ELSE /\ resp'.out.code = 200
               /\ users' = WithConfirmed(users, resp'.body.username)
               /\ WithConfirmed(users', resp'.body.username) = users'
      ]_vars

C12_Witness ==
    /\ resp.op = "confirm"
    /\ resp.fault = NoFault
    /\ "malformed" \notin DOMAIN resp.body
    /\ resp.body.code = ""
    /\ resp.out.code = 200
    /\ \E u \in users : u.username = resp.body.username /\ u.confirmed
    /\ \E u \in users : u.username # resp.body.username /\ ~u.confirmed

----------------------------------------------------------------------------
(* Properties of the worker, under SpecWorker *)

\* the records of a batch, in the order the queue hands them over, without
\* the messages whose body does not decode
RECURSIVE AllRecords(_)
AllRecords(messages) ==
    IF messages = << >> THEN << >>
    ELSE (IF "malformed" \in DOMAIN Head(messages) THEN << >>
          ELSE Head(messages).Records) \o AllRecords(Tail(messages))

\* the key of the record has the two segments the worker asks for
WellFormedKey(record) == Len(Split(record.key, Slash)) >= 2

\* nothing fails while the worker handles the record: the key is well formed,
\* the object is fetched and read, and the insert is accepted
Stores(record) ==
    /\ WellFormedKey(record)
    /\ record.fault = NoFault
    /\ record.bucket = bucketName
    /\ record.key \in DOMAIN objects
    /\ Split(record.key, Slash)[2] \in DOMAIN files

IsFetch(c) == c.call = "GetObject"

\* C13: whatever the batch, the worker returns nil; the rows it adds are, in
\* order, one "completed" row for each record that nothing fails for, and no
\* row for any other record; and it fetches, once and in order, the object
\* of every record with a well-formed key, whatever failed before it.
C13_FailureIsolation ==
    [][resp'.op = "worker" =>
          LET recs == AllRecords(resp'.event)
              good == SelectSeq(recs, Stores)
              tried == SelectSeq(recs, WellFormedKey)
              fetches == SelectSeq(resp'.calls, IsFetch)
          IN  /\ resp'.err = "nil"
              /\ Len(results') = Len(results) + Len(good)
              /\ \A i \in 1..Len(results) : results'[i] = results[i]
              /\ \A k \in 1..Len(good) :
                     /\ results'[Len(results) + k].file_id = Split(good[k].key, Slash)[2]
                     /\ results'[Len(results) + k].status = "completed"
              /\ Len(fetches) = Len(tried)
              /\ \A k \in 1..Len(tried) :
                     fetches[k].key = tried[k].key /\ fetches[k].bucket = tried[k].bucket
      ]_vars

C13_Witness ==
    /\ resp.op = "worker"
    /\ Len(AllRecords(resp.event)) = 2
    /\ AllRecords(resp.event)[1].fault = FaultDB
    /\ Len(resp.log) = 2
    /\ resp.log[1].text = "Error saving processing result"
    /\ resp.log[2].text = "Successfully processed file"
    /\ Len(results) = 1

\* C14: the worker fetches no object for a key with fewer than 2 segments;
\* a batch whose records all have such keys adds no row, makes no call,
\* returns nil, and logs "Invalid object key format" for each of them.
C14_MalformedKeySkipped ==
    [][resp'.op = "worker" =>
          LET recs == AllRecords(resp'.event)
          IN  /\ \A k \in 1..Len(resp'.calls) :
                     IsFetch(resp'.calls[k]) =>
                         Len(Split(resp'.calls[k].key, Slash)) >= 2
              /\ (\A k \in 1..Len(recs) : ~WellFormedKey(recs[k]))
                 => /\ results' = results
                    /\ resp'.calls = << >>
                    /\ resp'.err = "nil"
                    /\ \A k \in 1..Len(recs) :
                           LogLine(recs[k].key, "Invalid object key format")
                               \in Range(resp'.log)
      ]_vars

C14_Witness ==
    /\ resp.op = "worker"
    /\ AllRecords(resp.event) = <<Rec(bucketName, KeyNoSlash, FaultS3)>>
    /\ resp.log = <<LogLine(KeyNoSlash, "Invalid object key format")>>
    /\ resp.calls = << >>
    /\ DOMAIN files # {}

\* C15: every row of processing_results names, as its file_id, the id of a
\* row of files.
C15_ResultsReferenceFiles ==
    \A i \in DOMAIN results : results[i].file_id \in DOMAIN files

\* a notification for the key of the upload "a/b", which names the file "a":
\* rejected while "a" is not a file, stored against "a" once it is
C15_Witness ==
    /\ resp.op = "worker"
    /\ AllRecords(resp.event) = <<Rec(bucketName, S3Key(IdAB, NameC), NoFault)>>
    /\ resp.calls = <<FetchCall(bucketName, S3Key(IdAB, NameC)), InsertCall(IdA)>>
    /\ resp.log[1].text = "Error saving processing result"
    /\ IdAB \in DOMAIN files
    /\ Len(results) > 0

----------------------------------------------------------------------------
(* Properties of start-up, under SpecInit *)

\* InitDB has returned, and the process has exited if it returned an error
Settled == boot.pc \in {"ready", "exited"}

\* the attempts made so far all failed
AllFailed == \A k \in 1..Len(boot.tried) : boot.tried[k] # Connected

\* at most 5 attempts; the waits so far are of 1, 2, ... seconds, one after
\* each failed attempt but the 5th; after the 5th failure InitDB has returned
\* its error without a wait; after the first success no further attempt is
\* made and the tables are created next.
RetryShape ==
    /\ Len(boot.tried) <= 5
    /\ boot.slept = [k \in 1..Len(boot.slept) |-> k]
    /\ \A k \in 1..(Len(boot.tried) - 1) : boot.tried[k] # Connected
    /\ AllFailed =>
          /\ boot.pc \in {"loop", "sleep", "returned", "exited"}
          /\ boot.pc = "loop" => Len(boot.slept) = Len(boot.tried)
          /\ boot.pc = "sleep" => Len(boot.slept) = Len(boot.tried) - 1
          /\ boot.pc = "sleep" => Len(boot.tried) <= 4
          /\ Len(boot.tried) = 5 <=> boot.pc \in {"returned", "exited"}
          /\ Len(boot.tried) = 5 => Len(boot.slept) = 4
    /\ ~AllFailed =>
          /\ boot.pc \in {"tables", "ready", "returned", "exited"}
          /\ Len(boot.slept) = Len(boot.tried) - 1

\* C16: InitDB keeps to that shape, and start-up always comes to an end: the
\* tables are created and InitDB returns nil, or it returns an error and the
\* process exits.
C16_StartupRetry == []RetryShape /\ <>Settled

C16_Witness ==
    /\ boot.pc = "exited"
    /\ Len(boot.tried) = 5
    /\ AllFailed
    /\ boot.slept = <<1, 2, 3, 4>>

----------------------------------------------------------------------------
(* Properties of the whole service, under SpecAll *)

\* C20: no step removes a row of files or changes its name, its s3_key or
\* its created_at.
C20_FilesImmutable ==
    [][\A i \in DOMAIN files : i \in DOMAIN files' /\ files'[i] = files[i]]_vars

C20_Witness ==
    /\ resp.op = "upload"
    /\ resp.fault = NoFault
    /\ resp.body.id = IdA
    /\ resp.out.code = 500
    /\ files[IdA].name # resp.body.name
    /\ files[IdA].created_at < clock
    /\ Len(results) > 0

\* the dependent call the request was to fail on was made
FaultMet ==
    /\ resp.fault # NoFault
    /\ resp.op = "getFile" =>
          (resp.fault = FaultDB \/ "s3" \in Range(resp.calls))
    /\ resp.op = "getResult" =>
          (resp.fault = FaultDB \/ Len(resp.calls) = 2)

\* C17: a sign-in, an upload, a file fetch or a result lookup during which a
\* call to the database or to the object store fails is answered 500.
C17_FailuresAnswered500 ==
    (/\ resp.op \in {"signIn", "upload", "getFile", "getResult"}
     /\ resp.reached
     /\ FaultMet)
    => resp.out.code = 500

----------------------------------------------------------------------------
(* The identity of an upload, under SpecFiles *)

\* "files/{id}/{name}"
KeyText(id, name) == <<"f", "i", "l", "e", "s", "/">> \o id \o <<"/">> \o name

\* C19: an upload answered 201 is answered with status "uploaded" and with
\* the id the client gave or, when it gave none, an id no row of files had;
\* it creates the row of that id, with the submitted name and the s3_key
\* "files/{id}/{name}", and leaves the submitted content under that key.
C19_UploadIdentity ==
    [][(resp'.op = "upload" /\ resp'.out.code = 201) =>
          LET id == resp'.out.id
              body == resp'.body
          IN  /\ resp'.out.status = "uploaded"
              /\ id # EmptyStr
              /\ body.id # EmptyStr => id = body.id
              /\ id \notin DOMAIN files
              /\ id \in DOMAIN files'
              /\ files'[id].name = body.name
              /\ files'[id].s3_key = KeyText(id, body.name)
              /\ KeyText(id, body.name) \in DOMAIN objects'
              /\ objects'[KeyText(id, body.name)] = body.content
      ]_vars

C19_Witness ==
    /\ resp.op = "upload"
    /\ resp.out.code = 201
    /\ resp.body.id = EmptyStr
    /\ resp.out.id \in Uuids
    /\ resp.body.name = NameBC
    /\ files[resp.out.id].s3_key = KeyText(resp.out.id, NameBC)
    /\ objects[KeyText(resp.out.id, NameBC)] = resp.body.content
    /\ IdAB \in DOMAIN files

----------------------------------------------------------------------------
(* Properties of the provider's lock, under SpecLock *)

\* the goroutine is between its Lock and its Unlock, or between its RLock
\* and its RUnlock
InSection(p) == running[p].pc \in {"byUsername", "byEmail", "save", "update", "unlock"}
Writing(p) == InSection(p) /\ running[p].call.op \in {"signUp", "confirm"}
Reading(p) == InSection(p) /\ running[p].call.op = "signIn"

\* the sign-up of the goroutine has returned, no database call having failed
SignedUp(p) ==
    /\ running[p].pc = "done"
    /\ running[p].call.op = "signUp"
    /\ running[p].call.fault = NoFault

Collide(p, q) ==
    \/ running[p].call.username = running[q].call.username
    \/ running[p].call.email = running[q].call.email

\* a sign-up or a confirmation is in its section alone; a goroutine outside
\* its section holds the mutex in no way; of two returned sign-ups with the
\* same username or the same email one at most succeeded, and a sign-up that
\* failed has one that succeeded with its username or its email.
LockDiscipline ==
    /\ \A p, q \in Goroutines :
           (p # q /\ Writing(p)) => (~Writing(q) /\ ~Reading(q))
    /\ \A p \in Goroutines :
           ~InSection(p) => (mu.writer # p /\ p \notin mu.readers)
    /\ \A p, q \in Goroutines :
           (p # q /\ SignedUp(p) /\ SignedUp(q) /\ Collide(p, q))
           => ~(running[p].err = "" /\ running[q].err = "")
    /\ \A p \in Goroutines :
           (SignedUp(p) /\ running[p].err # "")
           => \E q \in Goroutines \ {p} :
                  SignedUp(q) /\ Collide(p, q) /\ running[q].err = ""

AllReturned == \A p \in Goroutines : running[p].pc = "done"

\* C21: the calls of the provider keep that discipline under every
\* interleaving, and every call returns: no goroutine waits for the mutex
\* for ever.
C21_CredentialStoreLocking == []LockDiscipline /\ <>AllReturned

\* two sign-ins read together
C21_Witness ==
    /\ \E p, q \in Goroutines : p # q /\ Reading(p) /\ Reading(q)
    /\ \E p \in Goroutines :
           /\ running[p].pc = "lock"
           /\ running[p].call.op = "signUp"
    /\ mu.writer = ""

----------------------------------------------------------------------------
(* Properties of sign-out, under SpecSession *)

\* the token of a guarded request's "Bearer t" header was signed out
BearsSignedOut(r, outSet) ==
    /\ r.op \in {"getFile", "getResult"}
    /\ ~Malformed(r.header)
    /\ Split(r.header, Space)[2] \in outSet

\* C22: a sign-out returns nil and leaves the users, the files, the results
\* and the objects as they were; and a guarded request bearing a token that
\* was signed out passes the gate and reaches its handler, as it did before.
C22_SignOutNoOp ==
    [][/\ resp'.op = "signOut" =>
             /\ resp'.err = "nil"
             /\ UNCHANGED <<users, files, results, objects>>
       /\ BearsSignedOut(resp', signedOut') => resp'.reached
      ]_vars

C22_Witness ==
    /\ BearsSignedOut(resp, signedOut)
    /\ Split(resp.header, Space)[2] \in issued
    /\ resp.op = "getFile"
    /\ resp.reached
    /\ resp.out.code = 200

----------------------------------------------------------------------------
(* The storage keys of uploads, under SpecFiles *)

\* C23: for every upload answered 201, the second of the segments its
\* s3_key splits into on "/" is the id of its row.
C23_KeyIdRoundTrip ==
    \A id \in DOMAIN uploaded : Split(files[id].s3_key, Slash)[2] = id

\* C24: no two rows of files have the same s3_key, and the object under the
\* key of each upload answered 201 is the content that upload submitted.
C24_KeyInjective ==
    /\ \A i, j \in DOMAIN files : files[i].s3_key = files[j].s3_key => i = j
    /\ \A i \in DOMAIN uploaded : objects[files[i].s3_key] = uploaded[i]

\* C28: once a GET of the result of an id has answered with a stored
\* "completed" result, no later GET of the result of that id answers
\* "processing" or 404, whatever uploads and deliveries came between; with
\* the database answering, it answers "completed" again.
C28_ResultMonotone ==
    [][(resp'.op = "getResult" /\ resp'.reached /\ resp'.id \in served)
       => /\ resp'.out.code # 404
          /\ ~(resp'.out.code = 200 /\ resp'.out.status = "processing")
          /\ resp'.fault = NoFault
                => resp'.out.code = 200 /\ resp'.out.status = "completed"]_vars

\* a GET for an id whose completed result was served before, sent after one
\* more upload and a second delivery, and failed by the database
C28_Witness ==
    /\ resp.op = "getResult" /\ resp.reached
    /\ resp.id \in served
    /\ resp.fault = FaultDB
    /\ resp.out.code = 500
    /\ Len(results) = 2
    /\ Cardinality(DOMAIN files) = 2

----------------------------------------------------------------------------
(* Properties of racing uploads, under SpecRace *)

IsInsert(c) == c.call = "INSERT"

\* C25: every object of the bucket has a row of files with its key; and the
\* worker, handed the notification of such an object, attempts no insert
\* that the file_id foreign key rejects.
C25_MetadataBeforeObject ==
    /\ \A k \in DOMAIN objects : \E i \in DOMAIN files : files[i].s3_key = k
    /\ resp.op = "worker" =>
          \A n \in 1..Len(resp.calls) :
              IsInsert(resp.calls[n]) => resp.calls[n].file_id \in DOMAIN files

\* the goroutines that upload under an id
Uploading(id) == {p \in Goroutines : running[p].pc # "idle" /\ running[p].call.id = id}

\* an upload under an id that has a row returns 500 at its INSERT and
\* changes neither the rows nor the objects
DuplicateRefused ==
    \A p \in Goroutines :
        (/\ running[p].pc = "insert"
         /\ running[p].call.id \in DOMAIN files
         /\ running'[p] # running[p])
        => /\ running'[p].pc = "done"
           /\ running'[p].out = ErrorBody(500, "Error saving file metadata")
           /\ files' = files
           /\ objects' = objects

\* of the uploads under one id, once all have returned and no PutObject
\* failed, one was answered 201 and its content is the object under its key,
\* and the others were answered 500
OneWinner ==
    \A id \in ClientIds :
        (/\ Uploading(id) # {}
         /\ \A p \in Uploading(id) :
                running[p].pc = "done" /\ running[p].call.fault = NoFault)
        => \E w \in Uploading(id) :
               /\ running[w].out.code = 201
               /\ LET key == S3Key(id, running[w].call.name)
                  IN  key \in DOMAIN objects /\ objects[key] = running[w].call.content
               /\ \A q \in Uploading(id) \ {w} : running[q].out.code = 500

\* C26: an upload whose id is the id of a row of files is answered 500,
\* writes no object and leaves the row and its object as they were; of
\* uploads that race under one id exactly one is answered 201, and the object
\* under its key holds that upload's content.
C26_DuplicateIdUpload == [][DuplicateRefused /\ OneWinner']_vars

\* one upload has been refused as a duplicate while the upload that won the
\* id, with another content, has still to write its object
C26_Witness ==
    \E p, q \in Goroutines :
        /\ running[p].pc = "done" /\ running[q].pc = "put"
        /\ running[p].call.id = running[q].call.id
        /\ running[p].call.content # running[q].call.content
        /\ running[p].out = ErrorBody(500, "Error saving file metadata")

----------------------------------------------------------------------------
(* Progress of the pipeline, under SpecLive *)

\* the upload of id was answered 201, and the worker has just been handed
\* the notification of its key and has fetched the object and stored a row
Processed(id) ==
    /\ id \in DOMAIN uploaded
    /\ resp.op = "worker"
    /\ \E n \in 1..Len(resp.log) :
           resp.log[n] = LogLine(files[id].s3_key, "Successfully processed file")

\* GET /api/files/{id}/result has answered with a completed result
AnsweredCompleted(id) ==
    /\ resp.op = "getResult"
    /\ resp.id = id
    /\ resp.out.code = 200
    /\ resp.out.status = "completed"

\* C27: once an upload was answered 201 and the worker, handed the
\* notification of its key, fetched the object and stored its row, a GET of
\* the result of that id eventually answers "completed".
C27_EventualCompletion ==
    \A id \in ClientIds : Processed(id) ~> AnsweredCompleted(id)

----------------------------------------------------------------------------
(* Properties of reads and refused requests, under SpecReads *)

\* the three tables and the bucket
Stored == <<users, files, results, objects>>

RefusedAsExisting ==
    {ErrorBody(500, <<"Failed to sign up: ", e>>) :
        e \in {"user already exists", "email already exists"}}

\* C29: a sign-in, a GET of a file or of a result, with the gate and its
\* token lookup in front of them, change no row of users, files or
\* processing_results and no object; neither does an upload answered 400 nor
\* a sign-up refused because the user or the email exists already.
C29_ReadsChangeNothing ==
    [][/\ resp'.op \in {"signIn", "getFile", "getResult"} => Stored' = Stored
       /\ (resp'.op = "upload" /\ resp'.out.code = 400) => Stored' = Stored
       /\ (resp'.op = "signUp" /\ resp'.out \in RefusedAsExisting) => Stored' = Stored]_vars

\* an upload is refused with 400 while every table and the bucket hold
\* something
C29_Witness ==
    /\ resp.op = "upload" /\ resp.out.code = 400
    /\ users # {}
    /\ DOMAIN files # {}
    /\ Len(results) > 0
    /\ DOMAIN objects # {}

----------------------------------------------------------------------------
(* Properties of the data-access functions, under SpecData *)

\* C30: for a file id that has a row of files, SaveProcessingResult returns
\* nil and adds a row with that file id, status and result; and
\* GetProcessingResultByFileID, called next, returns a record with that file
\* id, status and result.
C30_DataAccessRoundTrip ==
    [][/\ (/\ resp'.op = "saveResult"
           /\ resp'.fault = NoFault
           /\ resp'.file_id \in DOMAIN files)
          => /\ resp'.err = "nil"
             /\ Len(results') = Len(results) + 1
             /\ results'[Len(results')].file_id = resp'.file_id
             /\ results'[Len(results')].status = resp'.status
             /\ results'[Len(results')].result = resp'.result
       /\ (/\ resp.op = "saveResult" /\ resp.err = "nil"
           /\ resp'.op = "getLatest" /\ resp'.fault = NoFault
           /\ resp'.file_id = resp.file_id)
          => /\ resp'.err = "nil"
             /\ resp'.record # "nil"
             /\ resp'.record.file_id = resp.file_id
             /\ resp'.record.status = resp.status
             /\ resp'.record.result = resp.result]_vars

====
